---- MODULE Spec2Model ----
(***************************************************************************)
(* Model of the AB3DMOT live-tracking bridge.                              *)
(*                                                                         *)
(*   rtmaps_components/rtmaps_ab3dmot_tracker.py  the resilient live       *)
(*       component (rate limiter, circuit breaker, periodic reset)         *)
(*   rtmaps_ab3dmot_tracker.py                    the legacy live component*)
(*   realtime_tracker.py                          RealtimeTracker (batch)  *)
(*   AB3DMOT_libs/csv_export.py                   CSVExporter              *)
(*                                                                         *)
(* The detection normalizer of the two live components,                    *)
(* _parse_detection_input, is a function of its input and of the type id   *)
(* of the tracker's category; it is applied to drawn inputs on its own.    *)
(*                                                                         *)
(* One process runs one of the three: the two files define the same class  *)
(* rtmaps_python, and a batch caller drives RealtimeTracker directly.      *)
(*                                                                         *)
(* Time is counted in ticks of 0.02 s.  The component only ever uses the   *)
(* difference time.time() - last_process_time, and only compares it with   *)
(* min_process_interval, so the model keeps that difference, saturated at  *)
(* min_process_interval, in the variable elapsed.  A wait longer than      *)
(* min_process_interval acts as one of min_process_interval ticks.         *)
(***************************************************************************)
EXTENDS Integers, Sequences, FiniteSets, TLC

\* ------------------------------------------------------------------ bounds
MaxInterval == 2     \* largest configured min_process_interval, in ticks
MaxErrorsProp == 2   \* largest configured max_errors property
MaxDets == 2         \* most detections in one frame
MaxIdx == 1          \* largest frame index supplied on the frame_idx input
MaxFrames == 2       \* frames processed per session in the short runs
LongRun == 2         \* frames processed beyond the reset interval in the long run
MaxHypo == 1         \* largest num_hypo of a CSVExporter
MaxRows == 1         \* rows appended to the export sinks in one run
MaxBufRows == 2      \* most rows of a detection buffer
MaxCsvRows == 2          \* rows of a tracking-result CSV file
MaxNormCalls == 3        \* in-place normalizations of one file
MaxLogFrames == 2        \* frames a logger receives after Birth
MaxBufCols == 16     \* most columns of a buffer, and longest flat buffer

\* ------------------------------------------------------- program constants
DefaultMaxErrors == 10
DefaultInterval == 1
ResetInterval == 100
MaxSafeTracks == 1
DetsWidth == 7
IdStride == 100
DefaultScore == 100
IdInitCar == 0
IdInitPedestrian == 1000
IdInitCyclist == 2000
LowScore == 45
HighScore == 95

\* The ID_init values, the scores (in hundredths) and the sequence names
\* the inputs are drawn from.
IdInits == {IdInitCar, IdInitPedestrian, IdInitCyclist}
Scores == {LowScore, HighScore}
SeqNames == {"0001", "0002"}

NoScore == -1

NoIdx == -1
DefaultTypeId == 2

VARIABLES
    deployment,            \* "resilient" | "legacy" | "batch"
    phase,                 \* host lifecycle: "constructed" | "running" | "dead"
    props,                 \* the component's properties (configuration)
    tracker,               \* self.tracker: 0 is None, otherwise the instance
    frame_count,           \* self.frame_count
    elapsed,               \* time.time() - self.last_process_time, saturated
    min_process_interval,  \* self.min_process_interval
    error_count,           \* self.error_count
    max_errors,            \* self.max_errors
    outputs,               \* writes of the latest Core call on the 3 outputs
    outcome,               \* how the latest Core call ended
    invoked,               \* the latest Core call invoked the tracking step
    frame_idx,             \* frame index used by the latest Core call
    gap,                   \* ticks between the latest two Core calls
    fault_run,             \* consecutive faulted frames, up to max_errors
    sink_fault,            \* fault of the tracks sink met by the latest call
    prev_outcome,          \* how the Core call before the latest one ended
    supplied_idx,          \* frame index supplied to the latest call, or NoIdx
    since_reset,           \* frames processed since the latest periodic reset
    raised,                \* the latest call raised to its caller
    rt_frame_count,        \* RealtimeTracker.frame_count
    rt_rows,               \* rows returned by the latest track_frame call
    frame_cap,             \* frames a session processes in this run
    core,                  \* self.tracker.tracker: the AB3DMOT instance, 0 is none
    rt_returned,           \* track_frame calls returned since construction or reset
    produced,              \* results the tracking step gave the latest call
    ids,                   \* track ids the latest call handed to the tracks sink
    reported,              \* the latest Core call reported the open circuit
    payload,               \* the parsed payload of the latest Core call
    sessions,              \* the live sessions of a multi-category deployment
    num_hypo,              \* CSVExporter.num_hypo
    csv_files,             \* CSVExporter.csv_files: hypothesis -> file handle
    csv_writers,           \* CSVExporter.csv_writers: hypothesis -> writer
    open_sinks,            \* file handles opened and not yet closed
    files,                 \* the files of save_dir: path -> rows
    seq_name,              \* sequence of the latest init_sequence_files call
    exported,              \* rows appended to the sinks so far
    last,                  \* what the latest CSVExporter call did
    det_id2str,            \* RealtimeTracker.det_id2str
    category,              \* RealtimeTracker.category
    parsed,                \* the latest _get_type_id or normalizer call
    utils_file,            \* content of AB3DMOT_libs/utils.py
    backup_file,           \* content of AB3DMOT_libs/utils.py.backup, or NoFile
    ran,                   \* the latest run of run_with_custom_threshold
    csv_table,             \* the tracking-result CSV file given to the normalizer
    csv_backup,            \* its *_original.csv backup, or NoFile
    csv_output,            \* the file of another output_path, or NoFile
    original_scores,       \* the scores the file held before any normalization
    norm_calls,            \* in-place normalizations saved so far
    norm_last,             \* the latest call of the CSV normalizer
    lg_frame_count,        \* SimpleTrackerLogger.frame_count
    log_interval,          \* SimpleTrackerLogger.log_interval
    log_file,              \* the lines of the logger's log file
    logged                 \* the latest Core call of the logger

vars == <<deployment, phase, props, tracker, frame_count, elapsed,
          min_process_interval, error_count, max_errors, outputs, outcome,
          invoked, frame_idx, gap, fault_run, sink_fault, prev_outcome,
          supplied_idx, since_reset, raised, rt_frame_count, rt_rows,
          frame_cap, core, rt_returned, produced, ids, sessions, num_hypo,
          csv_files, csv_writers, open_sinks, files, seq_name, exported,
          last, reported, det_id2str, category, parsed, payload,
          utils_file, backup_file, ran, csv_table, csv_backup, csv_output,
          original_scores, norm_calls, norm_last, lg_frame_count,
          log_interval, log_file, logged>>

\* The state of the live component and of RealtimeTracker.
live_vars == <<deployment, phase, props, tracker, frame_count, elapsed,
               min_process_interval, error_count, max_errors, outputs,
               outcome, invoked, frame_idx, gap, fault_run, sink_fault,
               prev_outcome, supplied_idx, since_reset, raised,
               rt_frame_count, rt_rows, frame_cap, core, rt_returned,
               produced, ids, reported, payload>>

\* The state of the CSVExporter.
ex_vars == <<num_hypo, csv_files, csv_writers, open_sinks, files, seq_name,
             exported, last>>

\* The type table and category of a RealtimeTracker, and the latest call
\* of its _get_type_id or of a normalizer.
nz_vars == <<det_id2str, category, parsed>>

\* The files and the latest run of run_with_custom_threshold.
th_vars == <<utils_file, backup_file, ran>>

\* The files and the latest call of normalize_tracking_results.
cn_vars == <<csv_table, csv_backup, csv_output, original_scores, norm_calls,
             norm_last>>

\* The state of the SimpleTrackerLogger.
lg_vars == <<lg_frame_count, log_interval, log_file, logged>>

\* The state of the command-line tools and of the logger.
tool_vars == <<th_vars, cn_vars, lg_vars>>

\* ------------------------------------------------------------------ helpers
Min(a, b) == IF a < b THEN a ELSE b

NoWrites == [tracks |-> <<>>, num_tracks |-> <<>>, track_ids |-> <<>>]

\* The properties max_errors and max_fps (as the interval 1 / max_fps) of
\* the resilient component; the legacy component has neither.
Props == [max_errors : 1..MaxErrorsProp, interval : 1..MaxInterval]
NoProps == [max_errors |-> DefaultMaxErrors, interval |-> DefaultInterval]

\* A new RealtimeTracker is an object distinct from the one still held.
NewInstance(old) == IF old = 1 THEN 2 ELSE 1

\* RateLimited with the comparison turned round.
RateLimitedInverted(el, interval) == el > interval

\* Core line 134: the frame arrives too soon after the last processed one.
RateLimited(el, interval) == el < interval

\* CircuitOpen with a strict comparison.
CircuitOpenStrict(ec, me) == ec > me

\* Core line 138: the circuit is open.
CircuitOpen(ec, me) == ec >= me

\* ResetErrors that leaves the counter as it is.
ResetErrorsKept(ec) == ec

\* Core line 143: the error counter of a frame that passed the circuit
\* check.
ResetErrors(ec) == 0

\* Unstamped that stamps the frame as Core line 281 does.
Stamped(el) == 0

\* A call that returns before line 281 leaves last_process_time alone: the
\* time since the last processed frame is what the clock says.
Unstamped(el) == el

\* Core lines 158-164: the supplied frame index, else the internal counter.
FrameIndex(supplied, fc) == IF supplied # NoIdx THEN supplied ELSE fc

\* No payload was parsed.
NoPayload == [n |-> 0, dets_w |-> 0, info_w |-> 0]

\* ValidWidths that looks at dets only.
ValidWidthsDetsOnly(dets_w, info_w) == dets_w = DetsWidth

\* Core lines 178 and 181: dets and info both have 7 columns.
ValidWidths(dets_w, info_w) == dets_w = DetsWidth /\ info_w = DetsWidth

\* InnerTry whose handler leaves the results as they were.
InnerTryKeepsRows(n, dets_w, info_w, track_fault) ==
    IF ~ValidWidths(dets_w, info_w)
    THEN [rows |-> 0, invoked |-> FALSE, faulted |-> FALSE]
    ELSE [rows |-> n, invoked |-> TRUE, faulted |-> track_fault]

\* Core lines 172-200: shape validation, the tracking step and the inner
\* handler.  rows is len(tracking_results) after the block.
InnerTry(n, dets_w, info_w, track_fault) ==
    IF ~ValidWidths(dets_w, info_w)
    THEN [rows |-> 0, invoked |-> FALSE, faulted |-> FALSE]
    ELSE IF track_fault
         THEN [rows |-> 0, invoked |-> TRUE, faulted |-> TRUE]
         ELSE [rows |-> n, invoked |-> TRUE, faulted |-> FALSE]

\* Core lines 209-222 and 241-246: the output is cut to max_safe_tracks rows.
LimitOutput(rows) ==
    LET cut == IF rows > MaxSafeTracks THEN MaxSafeTracks ELSE rows
    IN  IF cut > 1 THEN 0 ELSE cut

\* Core lines 248-260: the guarded write of the tracks output and its
\* fallback, a minimal empty write.
WriteTracks(rows, wf) ==
    IF wf = "none" THEN <<rows>>
    ELSE IF wf = "first" THEN <<0>>
    ELSE <<>>

\* Core lines 320-344: the outer handler writes three empty outputs under a
\* single guard, so a failing tracks write ends the sequence.
HandlerWrites(wf) ==
    IF wf # "none" THEN NoWrites
    ELSE [tracks |-> <<0>>, num_tracks |-> <<0>>, track_ids |-> <<0>>]

\* Core lines 294-311: every ResetInterval-th processed frame the tracker is
\* replaced by a new RealtimeTracker.
PeriodicReset(fc, trk) ==
    IF fc % ResetInterval = 0 THEN NewInstance(trk) ELSE trk

\* _simple_tracking_fallback lines 508-524: result i of the frame (counted
\* from 0) gets the track id frame_idx * 100 + i.
TrackIds(rows, idx) == [i \in 1..rows |-> idx * IdStride + (i - 1)]

\* AB3DMOT.track, the external tracking core: it raises, or returns m
\* results for the n detections it was given.
CoreTrack(n, core_fault, m) ==
    IF core_fault THEN [raised |-> TRUE, rows |-> 0]
    ELSE [raised |-> FALSE, rows |-> Min(m, n)]

\* TrackFrame whose counter follows the index used for the frame.
TrackFrameFollowsIndex(n, dets_w, supplied, fc, core_fault, m) ==
    LET idx == IF supplied = NoIdx THEN fc ELSE supplied
        trk == CoreTrack(n, core_fault, m)
    IN  IF n # 0 /\ dets_w \notin {DetsWidth, DetsWidth + 1}
        THEN [status |-> "raised_shape", rows |-> 0, frame_count |-> fc,
              idx |-> idx, invoked |-> FALSE]
        ELSE IF trk.raised
        THEN [status |-> "raised_core", rows |-> 0, frame_count |-> fc,
              idx |-> idx, invoked |-> TRUE]
        ELSE [status |-> "returned", rows |-> trk.rows,
              frame_count |-> idx + 1, idx |-> idx, invoked |-> TRUE]

\* RealtimeTracker.track_frame: the frame index, the column check, the call
\* of the tracking core and the frame counter.
TrackFrame(n, dets_w, supplied, fc, core_fault, m) ==
    LET idx == IF supplied = NoIdx THEN fc ELSE supplied
        trk == CoreTrack(n, core_fault, m)
    IN  IF n # 0 /\ dets_w \notin {DetsWidth, DetsWidth + 1}
        THEN [status |-> "raised_shape", rows |-> 0, frame_count |-> fc,
              idx |-> idx, invoked |-> FALSE]
        ELSE IF trk.raised
        THEN [status |-> "raised_core", rows |-> 0, frame_count |-> fc,
              idx |-> idx, invoked |-> TRUE]
        ELSE [status |-> "returned", rows |-> trk.rows,
              frame_count |-> fc + 1, idx |-> idx, invoked |-> TRUE]

Processed(o) == o \in {"processed", "track_fault"}

\* --------------------------------------------------------------------- Init
\* No file of the threshold runner and no run of it.
NoFile == [absent |-> TRUE]

NoRun == [numeric |-> FALSE, fault |-> "none", run |-> "none",
          raised |-> FALSE, before |-> NoFile, argv |-> <<>>]

\* utils.py as the repository ships it: get_threshold holds the line
\* "if det_name == 'pointrcnn': return {'Car': 3.240738, ...}".
OriginalUtils == [car |-> "3.240738"]

ThresholdIdle ==
    /\ utils_file = OriginalUtils
    /\ backup_file = NoFile
    /\ ran = NoRun

\* A tracking-result file as the exporter writes it.
CsvTable(scores) ==
    [cols |-> {"confidence_score"}, conf |-> scores, raw |-> <<>>]

NoNormCall == [op |-> "none", returned |-> FALSE, saved |-> FALSE]

\* A CSV file of some other layout, without a confidence_score column.
OtherTable == [cols |-> {}, conf |-> <<>>, raw |-> <<>>]

CsvNormInit(scoreLists, others) ==
    /\ original_scores \in scoreLists
    /\ csv_table \in {CsvTable(original_scores)}
                     \cup IF original_scores = <<>> THEN others ELSE {}
    /\ csv_backup = NoFile
    /\ csv_output = NoFile
    /\ norm_calls = 0
    /\ norm_last = NoNormCall

NoLog == [op |-> "none", tracks |-> <<>>, lines |-> <<>>]

\* A logger before Birth: log_interval 0 stands for the property not read.
LoggerIdle ==
    /\ lg_frame_count = 0
    /\ log_interval = 0
    /\ log_file = <<>>
    /\ logged = NoLog

ToolsIdle == ThresholdIdle /\ CsvNormInit({<<>>}, {}) /\ LoggerIdle

InitWith(deps, propset, cap) ==
    /\ deployment \in deps
    /\ props \in IF deployment = "resilient" THEN propset ELSE {NoProps}
    /\ phase = IF deployment = "batch" THEN "running" ELSE "constructed"
    /\ tracker = IF deployment = "batch" THEN 1 ELSE 0
    /\ core = IF deployment = "batch" THEN 1 ELSE 0
    /\ rt_returned = 0
    /\ produced = 0
    /\ ids = <<>>
    /\ frame_count = 0
    /\ elapsed = MaxInterval
    /\ min_process_interval = DefaultInterval
    /\ error_count = 0
    /\ max_errors = DefaultMaxErrors
    /\ outputs = NoWrites
    /\ outcome = "none"
    /\ invoked = FALSE
    /\ frame_idx = NoIdx
    /\ gap = MaxInterval
    /\ fault_run = 0
    /\ sink_fault = "none"
    /\ prev_outcome = "none"
    /\ supplied_idx = NoIdx
    /\ since_reset = NoIdx
    /\ raised = FALSE
    /\ rt_frame_count = 0
    /\ rt_rows = 0
    /\ frame_cap = cap
    /\ reported = FALSE
    /\ payload = NoPayload

\* RealtimeTracker.__init__: the KITTI table det_id2str.
DetId2Str == [t \in 1..3 |-> IF t = 1 THEN "Pedestrian"
                             ELSE IF t = 2 THEN "Car" ELSE "Cyclist"]

\* RealtimeTracker.__init__: the nuScenes table det_id2str.
DetId2StrNuScenes ==
    <<"Pedestrian", "Car", "Bicycle", "Motorcycle", "Bus", "Trailer",
      "Truck", "Construction_vehicle", "Barrier", "Traffic_cone">>

\* The categories a tracker may be built for: the names of both tables and
\* one name that is in neither.
Categories ==
    {DetId2Str[t] : t \in DOMAIN DetId2Str}
    \cup {DetId2StrNuScenes[t] : t \in DOMAIN DetId2StrNuScenes}
    \cup {"Van"}

\* No _get_type_id or normalizer call has been made.
NoParse == [op |-> "none"]

\* RealtimeTracker.__init__ for a dataset with one of the given tables and
\* one of the given categories.
TrackerInit(tables, cats) ==
    /\ det_id2str \in tables
    /\ category \in cats
    /\ parsed = NoParse

\* An empty dict.
EmptyMap == [k \in {} |-> 0]

\* What a CSVExporter call did: whether the sink of the hypothesis was open,
\* whether the confidence passed the threshold, the rows it appended,
\* whether it raised, the sinks it closed and, for an appended row, the row,
\* the result's confidence and the score of the detection behind it; for
\* close_files, whether the call before it was close_files too and whether
\* it changed a dict or a handle.
NoCall == [op |-> "none", sink_open |-> FALSE, passes |-> FALSE,
           appended |-> 0, raised |-> FALSE, src_score |-> NoScore,
           conf |-> NoScore, row |-> <<>>, closed |-> 0, again |-> FALSE,
           changed |-> FALSE]

\* CSVExporter.__init__ with the given num_hypo; 0 stands for no exporter.
ExporterInit(hypos) ==
    /\ num_hypo \in hypos
    /\ csv_files = EmptyMap
    /\ csv_writers = EmptyMap
    /\ open_sinks = {}
    /\ files = EmptyMap
    /\ seq_name = ""
    /\ exported = 0
    /\ last = NoCall

Init ==
    /\ InitWith({"resilient", "legacy", "batch"}, Props, MaxFrames)
    /\ sessions = EmptyMap
    /\ ExporterInit({0})
    /\ TrackerInit({DetId2Str}, {"Car"})
    /\ ToolsIdle

InitLong ==
    /\ InitWith({"resilient"}, {[max_errors |-> 2, interval |-> 1]},
                ResetInterval + LongRun)
    /\ sessions = EmptyMap
    /\ ExporterInit({0})
    /\ TrackerInit({DetId2Str}, {"Car"})
    /\ ToolsIdle

\* Two live components of a multi-category deployment, constructed with
\* different ID_init properties.
InitIds ==
    /\ InitWith({"sessions"}, {NoProps}, MaxFrames)
    /\ sessions \in [1..2 -> [ID_init : IdInits, running : {FALSE},
                               frame_count : {0}, ids : {<<>>}]]
    /\ sessions[1].ID_init # sessions[2].ID_init
    /\ ExporterInit({0})
    /\ TrackerInit({DetId2Str}, {"Car"})
    /\ ToolsIdle

\* A CSVExporter after construction.
InitExport ==
    /\ InitWith({"export"}, {NoProps}, MaxFrames)
    /\ sessions = EmptyMap
    /\ ExporterInit(1..MaxHypo)
    /\ TrackerInit({DetId2Str}, {"Car"})
    /\ ToolsIdle

\* A save_dir written by the standalone export function only.
InitStandalone ==
    /\ InitWith({"standalone"}, {NoProps}, MaxFrames)
    /\ sessions = EmptyMap
    /\ ExporterInit({0})
    /\ TrackerInit({DetId2Str}, {"Car"})
    /\ ToolsIdle

\* A RealtimeTracker of either dataset and any category, and the
\* normalizers of the two live components.
InitNorm ==
    /\ InitWith({"normalizer"}, {NoProps}, MaxFrames)
    /\ sessions = EmptyMap
    /\ ExporterInit({0})
    /\ TrackerInit({DetId2Str, DetId2StrNuScenes}, Categories)
    /\ ToolsIdle

\* ------------------------------------------------------------------ actions
\* No frame has been submitted since the latest lifecycle event.
NoFrame ==
    /\ outputs' = NoWrites
    /\ outcome' = "none"
    /\ invoked' = FALSE
    /\ reported' = FALSE
    /\ frame_idx' = NoIdx
    /\ gap' = MaxInterval
    /\ sink_fault' = "none"
    /\ prev_outcome' = "none"
    /\ supplied_idx' = NoIdx
    /\ raised' = FALSE
    /\ rt_rows' = 0
    /\ produced' = 0
    /\ payload' = NoPayload
    /\ ids' = <<>>

\* rtmaps_python.Birth: the resilient component reads max_fps and max_errors,
\* both components create the RealtimeTracker and zero the frame counter.
Birth ==
    /\ deployment \in {"resilient", "legacy"}
    /\ phase \in {"constructed", "dead"}
    /\ phase' = "running"
    /\ max_errors' = IF deployment = "resilient" THEN props.max_errors
                     ELSE max_errors
    /\ min_process_interval' = IF deployment = "resilient" THEN props.interval
                               ELSE min_process_interval
    /\ tracker' = NewInstance(tracker)
    /\ core' = NewInstance(core)
    /\ rt_frame_count' = 0
    /\ rt_returned' = 0
    /\ frame_count' = 0
    /\ since_reset' = NoIdx
    /\ NoFrame
    /\ UNCHANGED <<deployment, props, elapsed, error_count, fault_run,
                   frame_cap, sessions, ex_vars, nz_vars, tool_vars>>

\* rtmaps_python.Death
Death ==
    /\ deployment \in {"resilient", "legacy"}
    /\ phase = "running"
    /\ phase' = "dead"
    /\ tracker' = 0
    /\ core' = 0
    /\ NoFrame
    /\ UNCHANGED <<deployment, props, frame_count, elapsed,
                   min_process_interval, error_count, max_errors, fault_run,
                   since_reset, rt_frame_count, rt_returned, frame_cap,
                   sessions, ex_vars, nz_vars, tool_vars>>

\* The parsed payloads a frame may carry: n detections, and the column
\* counts of dets and info.
Payload(n, dets_w, info_w) == [n |-> n, dets_w |-> dets_w, info_w |-> info_w]

Payloads ==
    {Payload(n, DetsWidth, DetsWidth) : n \in 0..MaxDets}
    \cup {Payload(1, DetsWidth - 1, DetsWidth),
          Payload(1, DetsWidth, DetsWidth + 1)}

SinkFaults == {"none", "first", "both"}

\* rtmaps_python.Core (resilient component), one call.  The inputs are drawn
\* where the code reads them:
\*   dt        ticks since the previous Core call (time.time())
\*   has_data  the detections input holds data
\*   fault     "none", or where processing raises: "pre" (before the inner
\*             try, e.g. int() of the frame_idx data), "track" (inside the
\*             tracking step), "post" (line 232, int() of a non-finite value
\*             of the first result)
\*   supplied  the value on the frame_idx input, NoIdx when there is none
\*   pl        the parsed payload
\*   wf        fault of the tracks sink: "none", "first" (the write fails,
\*             the next one succeeds), "both"
\* The num_tracks and track_ids sinks are taken to accept their writes.
\* A frame that faults carries one detection: a fault leaves the same state
\* behind however many there are.
Core(Dts, Faults, Supplied, Pls, Wfs) ==
    \E dt \in Dts :
    LET now_elapsed == Min(elapsed + dt, min_process_interval) IN
    /\ deployment = "resilient"
    /\ phase = "running"
    /\ dt <= min_process_interval
    /\ gap' = dt
    /\ prev_outcome' = outcome
    /\ raised' = FALSE
    /\ UNCHANGED <<deployment, phase, props, min_process_interval,
                   max_errors, rt_frame_count, rt_rows, frame_cap,
                   rt_returned, sessions, ex_vars, nz_vars, tool_vars>>
    /\ IF RateLimited(now_elapsed, min_process_interval)
       THEN \* line 135
            /\ outcome' = "dropped"
            /\ invoked' = FALSE
            /\ reported' = FALSE
            /\ outputs' = NoWrites
            /\ elapsed' = Unstamped(now_elapsed)
            /\ sink_fault' = "none"
            /\ supplied_idx' = NoIdx
            /\ produced' = 0
            /\ payload' = NoPayload
            /\ ids' = <<>>
            /\ UNCHANGED <<tracker, frame_count, error_count, frame_idx,
                           fault_run, since_reset, core>>
       ELSE IF CircuitOpen(error_count, max_errors)
       THEN \* lines 138-140: the error is reported and the frame skipped
            /\ outcome' = "skipped"
            /\ invoked' = FALSE
            /\ reported' = TRUE
            /\ outputs' = NoWrites
            /\ elapsed' = Unstamped(now_elapsed)
            /\ sink_fault' = "none"
            /\ supplied_idx' = NoIdx
            /\ produced' = 0
            /\ payload' = NoPayload
            /\ ids' = <<>>
            /\ UNCHANGED <<tracker, frame_count, error_count, frame_idx,
                           fault_run, since_reset, core>>
       ELSE \E has_data \in BOOLEAN :
            IF ~has_data
            THEN \* lines 143-153
                 /\ error_count' = ResetErrors(error_count)
                 /\ outcome' = "nodata"
                 /\ invoked' = FALSE
                 /\ reported' = FALSE
                 /\ outputs' = NoWrites
                 /\ elapsed' = Unstamped(now_elapsed)
                 /\ sink_fault' = "none"
                 /\ supplied_idx' = NoIdx
                 /\ produced' = 0
                 /\ payload' = NoPayload
                 /\ ids' = <<>>
                 /\ UNCHANGED <<tracker, frame_count, frame_idx, fault_run,
                                since_reset, core>>
            ELSE \E fault \in Faults, wf \in Wfs :
                 IF fault = "pre"
                 THEN \* lines 313-344: the outer handler
                      /\ error_count' = ResetErrors(error_count) + 1
                      /\ outcome' = "pre_fault"
                      /\ invoked' = FALSE
                      /\ reported' = FALSE
                      /\ outputs' = HandlerWrites(wf)
                      /\ elapsed' = Unstamped(now_elapsed)
                      /\ sink_fault' = wf
                      /\ fault_run' = Min(fault_run + 1, max_errors)
                      /\ supplied_idx' = NoIdx
                      /\ produced' = 0
                      /\ payload' = NoPayload
                      /\ ids' = <<>>
                      /\ UNCHANGED <<tracker, frame_count, frame_idx,
                                     since_reset, core>>
                 ELSE \E supplied \in Supplied, pl \in Pls :
                      LET idx == FrameIndex(supplied, frame_count)
                          res == InnerTry(pl.n, pl.dets_w, pl.info_w,
                                          fault = "track")
                          out == LimitOutput(res.rows)
                      IN
                      /\ fault = "track" => res.invoked
                      /\ fault = "post" => out > 0
                      /\ fault # "none" =>
                            pl = Payload(1, DetsWidth, DetsWidth)
                      /\ supplied_idx' = supplied
                      /\ payload' = pl
                      /\ frame_idx' = idx
                      /\ invoked' = res.invoked
                      /\ reported' = FALSE
                      /\ sink_fault' = wf
                      /\ IF fault = "post"
                         THEN \* line 232 raises: the outer handler
                              /\ error_count' = ResetErrors(error_count) + 1
                              /\ outcome' = "post_fault"
                              /\ outputs' = HandlerWrites(wf)
                              /\ elapsed' = Unstamped(now_elapsed)
                              /\ fault_run' =
                                   Min(fault_run + 1, max_errors)
                              /\ produced' = 0
                              /\ ids' = <<>>
                              /\ UNCHANGED <<tracker, frame_count,
                                             since_reset, core>>
                         ELSE \* lines 143-311: the frame is processed
                              /\ frame_count < frame_cap
                              /\ error_count' = ResetErrors(error_count)
                              /\ outcome' = IF res.faulted THEN "track_fault"
                                            ELSE "processed"
                              /\ outputs' = [tracks |-> WriteTracks(out, wf),
                                             num_tracks |-> <<out>>,
                                             track_ids |-> <<0>>]
                              /\ elapsed' = 0
                              /\ frame_count' = frame_count + 1
                              /\ tracker' =
                                   PeriodicReset(frame_count + 1, tracker)
                              /\ core' =
                                   PeriodicReset(frame_count + 1, core)
                              /\ produced' = res.rows
                              /\ ids' = SubSeq(TrackIds(res.rows, idx),
                                               1, out)
                              /\ since_reset' =
                                   IF (frame_count + 1) % ResetInterval = 0
                                   THEN 0
                                   ELSE IF since_reset = NoIdx THEN NoIdx
                                   ELSE Min(since_reset + 1, 2)
                              /\ fault_run' =
                                   IF res.faulted
                                   THEN Min(fault_run + 1, max_errors)
                                   ELSE 0

CoreCall ==
    Core(0..MaxInterval, {"none", "pre", "track", "post"},
         {NoIdx} \cup 0..MaxIdx, Payloads, SinkFaults)

\* The long run draws its frames from a smaller set of inputs: one
\* detection per frame and healthy sinks.
CoreCallLong ==
    Core(0..1, {"none", "pre", "track"}, {NoIdx, 0},
         {Payload(1, DetsWidth, DetsWidth)}, {"none"})

\* rtmaps_python.Core of the legacy component, one call.
\*   ioelt_ok  the detections input holds an element
\*   supplied, pl, wf  as for the resilient component
\*   core_fault, m     the tracking core raises / returns m results
LegacyCore ==
    \E ioelt_ok \in BOOLEAN, supplied \in {NoIdx} \cup 0..MaxIdx,
       pl \in Payloads, core_fault \in BOOLEAN, m \in 0..MaxDets,
       wf \in SinkFaults :
    LET idx == FrameIndex(supplied, frame_count)
        tf == TrackFrame(pl.n, pl.dets_w, idx, rt_frame_count, core_fault, m)
    IN
    /\ deployment = "legacy"
    /\ phase = "running"
    /\ m <= pl.n
    /\ tf.frame_count <= frame_cap
    /\ ~ioelt_ok => (supplied = NoIdx /\ pl.n = 0 /\ ~core_fault
                       /\ wf = "none")
    /\ prev_outcome' = outcome
    /\ gap' = MaxInterval
    /\ IF ~ioelt_ok
       THEN \* line 127 raises, and so does line 185 in the handler
            /\ outcome' = "pre_fault"
            /\ raised' = TRUE
            /\ outputs' = NoWrites
            /\ invoked' = FALSE
            /\ sink_fault' = "none"
            /\ supplied_idx' = NoIdx
            /\ produced' = 0
            /\ UNCHANGED <<frame_count, rt_frame_count, rt_rows, frame_idx,
                           rt_returned>>
       ELSE /\ supplied_idx' = supplied
            /\ rt_returned' = IF tf.status = "returned"
                              THEN rt_returned + 1 ELSE rt_returned
            /\ frame_idx' = tf.idx
            /\ invoked' = tf.invoked
            /\ rt_frame_count' = tf.frame_count
            /\ rt_rows' = tf.rows
            /\ sink_fault' = wf
            /\ IF tf.status # "returned"
               THEN \* lines 181-187: the handler writes an empty result
                    /\ outcome' = "track_fault"
                    /\ raised' = (wf # "none")
                    /\ outputs' = IF wf = "none"
                                  THEN [NoWrites EXCEPT !.tracks = <<0>>]
                                  ELSE NoWrites
                    /\ produced' = 0
                    /\ UNCHANGED frame_count
               ELSE IF wf # "none"
               THEN \* line 164 raises: the handler writes again
                    /\ outcome' = "write_fault"
                    /\ raised' = (wf = "both")
                    /\ outputs' = IF wf = "first"
                                  THEN [NoWrites EXCEPT !.tracks = <<0>>]
                                  ELSE NoWrites
                    /\ produced' = 0
                    /\ UNCHANGED frame_count
               ELSE \* lines 159-179
                    /\ frame_count < frame_cap
                    /\ outcome' = "processed"
                    /\ raised' = FALSE
                    /\ outputs' = [tracks |-> <<tf.rows>>,
                                   num_tracks |-> <<tf.rows>>,
                                   track_ids |-> <<0>>]
                    /\ frame_count' = frame_count + 1
                    /\ produced' = tf.rows
    /\ UNCHANGED <<deployment, phase, props, tracker, elapsed,
                   min_process_interval, error_count, max_errors, fault_run,
                   since_reset, frame_cap, core, ids, reported, payload,
                   sessions,
                   ex_vars, nz_vars, tool_vars>>

\* A batch caller calls RealtimeTracker.track_frame.
\*   n, dets_w  rows and columns of dets
\*   supplied   frame_idx, NoIdx when omitted
\*   core_fault, m  the tracking core raises / returns m results
TrackFrameCall ==
    \E n \in 0..MaxDets, dets_w \in (DetsWidth - 1)..(DetsWidth + 1),
       supplied \in {NoIdx} \cup 0..MaxIdx, core_fault \in BOOLEAN,
       m \in 0..MaxDets :
    LET tf == TrackFrame(n, dets_w, supplied, rt_frame_count, core_fault, m)
    IN
    /\ deployment = "batch"
    /\ m <= n
    /\ rt_frame_count < frame_cap
    /\ prev_outcome' = outcome
    /\ outcome' = tf.status
    /\ raised' = (tf.status # "returned")
    /\ invoked' = tf.invoked
    /\ rt_frame_count' = tf.frame_count
    /\ rt_returned' = IF tf.status = "returned"
                      THEN rt_returned + 1 ELSE rt_returned
    /\ rt_rows' = tf.rows
    /\ frame_idx' = tf.idx
    /\ supplied_idx' = supplied
    /\ UNCHANGED <<deployment, phase, props, tracker, frame_count, elapsed,
                   min_process_interval, error_count, max_errors, outputs,
                   gap, fault_run, sink_fault, since_reset, frame_cap, core,
                   produced, ids, reported, payload, sessions, ex_vars,
                   nz_vars, tool_vars>>

\* A batch caller calls RealtimeTracker.reset: the registry of the core it
\* holds is emptied and both frame counters are zeroed, in place.
Reset ==
    /\ deployment = "batch"
    /\ rt_frame_count' = 0
    /\ rt_returned' = 0
    /\ core' = core
    /\ outcome' = "reset"
    /\ prev_outcome' = "none"
    /\ raised' = FALSE
    /\ invoked' = FALSE
    /\ rt_rows' = 0
    /\ frame_idx' = NoIdx
    /\ supplied_idx' = NoIdx
    /\ UNCHANGED <<deployment, phase, props, tracker, frame_count, elapsed,
                   min_process_interval, error_count, max_errors, outputs,
                   gap, fault_run, sink_fault, since_reset, frame_cap,
                   produced, ids, reported, payload, sessions, ex_vars,
                   nz_vars, tool_vars>>

Next == Birth \/ CoreCall \/ LegacyCore \/ Death \/ TrackFrameCall \/ Reset

Spec == Init /\ [][Next]_vars

NextLong == Birth \/ CoreCallLong \/ Death

SpecLong == InitLong /\ [][NextLong]_vars

\* ------------------------------------------- two live sessions side by side
\* rtmaps_python.Birth of session s: ID_init is read and handed to the
\* RealtimeTracker, the frame counter is zeroed.
SessionBirth(s) ==
    /\ deployment = "sessions"
    /\ ~sessions[s].running
    /\ sessions' = [sessions EXCEPT ![s] =
                       [ID_init |-> @.ID_init, running |-> TRUE,
                        frame_count |-> 0, ids |-> <<>>]]
    /\ UNCHANGED <<live_vars, ex_vars, nz_vars, tool_vars>>

\* rtmaps_python.Core of session s for a frame that passes the rate limiter
\* and the circuit check and is processed without a fault: the frame index,
\* the tracking step, the output limit and the frame counter.
SessionCore(s) ==
    \E supplied \in {NoIdx} \cup 0..MaxIdx, pl \in Payloads :
    LET idx == FrameIndex(supplied, sessions[s].frame_count)
        res == InnerTry(pl.n, pl.dets_w, pl.info_w, FALSE)
        out == LimitOutput(res.rows)
    IN
    /\ deployment = "sessions"
    /\ sessions[s].running
    /\ sessions[s].frame_count < frame_cap
    /\ sessions' = [sessions EXCEPT ![s] =
                       [ID_init |-> @.ID_init, running |-> TRUE,
                        frame_count |-> @.frame_count + 1,
                        ids |-> SubSeq(TrackIds(res.rows, idx), 1, out)]]
    /\ UNCHANGED <<live_vars, ex_vars, nz_vars, tool_vars>>

NextIds == \E s \in 1..2 : SessionBirth(s) \/ SessionCore(s)

SpecIds == InitIds /\ [][NextIds]_vars

\* ------------------------------------------------------------- CSVExporter
\* get_csv_header: the column names, reduced to the columns the rows of
\* the model carry.
CsvHeader == <<"frame", "track_id", "object_type", "confidence_score">>

\* The wire formats of a detection payload: a dict with dets and info, or
\* an array of 7, 8 or 15 columns.
Formats == {"dict", "n7", "n8", "n15"}

\* _parse_detection_input and _generate_default_info: the score that ends
\* in column 6 of info.  An array of 7 columns carries none and gets 1.0.
ParsedScore(fmt, score) == IF fmt = "n7" THEN DefaultScore ELSE score

\* _simple_tracking_fallback: the 15-field result built for detection i of
\* the frame, reduced to track id, type id and confidence.
FallbackResult(idx, i, type_id, score) ==
    [track_id |-> TrackIds(i + 1, idx)[i + 1], type_id |-> type_id,
     conf |-> score]

\* csv.writer renders a float by its shortest decimal form: a score counted
\* in hundredths becomes its whole part and its decimals, 0.9 and not 0.90.
Repr(c) ==
    IF c % 10 = 0 THEN <<c \div 100, (c % 100) \div 10>>
    ELSE <<c \div 100, (c % 100) \div 10, c % 10>>

\* The value, in hundredths, a reader of the file gets from such a text.
Value(text) ==
    text[1] * 100 + text[2] * 10 + (IF Len(text) = 3 THEN text[3] ELSE 0)

\* CsvRow that writes the default score in place of the result's.
CsvRowDefaultScore(result, frame) ==
    [frame |-> frame, track_id |-> result.track_id,
     object_type |-> DetId2Str[result.type_id],
     confidence_score |-> Repr(DefaultScore)]

\* export_result lines 107-128: the row written for a result.
CsvRow(result, frame) ==
    [frame |-> frame, track_id |-> result.track_id,
     object_type |-> DetId2Str[result.type_id],
     confidence_score |-> Repr(result.conf)]

\* ClosedFiles that closes nothing.
ClosedFilesLeaked(fd, open) == open

\* close_files lines 132-134: the handles still open after every file of
\* the dict fd has been closed.
ClosedFiles(fd, open) == open \ {fd[h] : h \in DOMAIN fd}

\* CSVExporter.init_sequence_files(seq).  open() of hypothesis fail_at
\* raises (a missing or read-only save_dir); fail_at = num_hypo is a call
\* in which every open() succeeds.
InitSequenceFiles ==
    \E seq \in SeqNames, fail_at \in 0..num_hypo :
    LET still == ClosedFiles(csv_files, open_sinks)
        new == [h \in 0..(fail_at - 1) |-> [seq |-> seq, hypo |-> h]]
        opened == {new[h] : h \in DOMAIN new}
    IN
    /\ deployment = "export"
    /\ csv_files' = new
    /\ csv_writers' = new
    /\ open_sinks' = still \cup opened
    /\ files' = [f \in DOMAIN files \cup opened |->
                    IF f \in opened THEN <<CsvHeader>> ELSE files[f]]
    /\ seq_name' = seq
    /\ last' = [NoCall EXCEPT !.op = "init", !.raised = (fail_at < num_hypo),
                              !.closed = Cardinality(open_sinks \ still)]
    /\ UNCHANGED <<live_vars, sessions, nz_vars, tool_vars, num_hypo, exported>>

\* ExportBranch that looks the type id up before it looks for the sink.
ExportBranchLookupFirst(open, known, passes) ==
    IF ~known THEN "keyerror"
    ELSE IF ~open THEN "nosink"
    ELSE IF passes THEN "row" ELSE "below"

\* export_result lines 93-106, in the order of the code: the return when
\* the hypothesis has no writer, the type lookup, the threshold test.
ExportBranch(open, known, passes) ==
    IF ~open THEN "nosink"
    ELSE IF ~known THEN "keyerror"
    ELSE IF passes THEN "row" ELSE "below"

\* CSVExporter.export_result(result_data, hypo, det_id2str, frame,
\* score_threshold), for a result the tracking step built from a detection
\* that arrived in format fmt with the given score and type id.  Only a
\* dict payload brings its own type ids; an array of 7 columns brings no
\* score, so the one drawn for it is of no account, and so is the frame of
\* a call that writes no row.  Arrays of 8 and 15 columns give the result a
\* dict gives, and are drawn for frame 0 only.
ExportResult ==
    \E hypo \in 0..MaxHypo, fmt \in Formats, score \in Scores,
       type_id \in {2, 4}, frame \in 0..MaxIdx, threshold \in Scores :
    LET result == FallbackResult(frame, 0, type_id, ParsedScore(fmt, score))
        call == [NoCall EXCEPT
                    !.op = "export",
                    !.sink_open = (hypo \in DOMAIN csv_writers),
                    !.passes = (result.conf >= threshold)]
        branch == ExportBranch(hypo \in DOMAIN csv_writers,
                               result.type_id \in DOMAIN DetId2Str,
                               result.conf >= threshold)
    IN
    /\ deployment = "export"
    /\ fmt # "dict" => type_id = 2
    /\ fmt = "n7" => score = LowScore
    /\ fmt \in {"n8", "n15"} => frame = 0
    /\ (\/ hypo \notin DOMAIN csv_writers
        \/ result.type_id \notin DOMAIN DetId2Str
        \/ result.conf < threshold) => frame = 0
    /\ UNCHANGED <<live_vars, sessions, nz_vars, tool_vars, num_hypo, csv_files,
                   csv_writers,
                   open_sinks, seq_name>>
    /\ IF branch = "nosink"
       THEN \* line 94
            /\ last' = call
            /\ UNCHANGED <<files, exported>>
       ELSE IF branch = "keyerror"
       THEN \* line 101 raises KeyError
            /\ last' = [call EXCEPT !.raised = TRUE]
            /\ UNCHANGED <<files, exported>>
       ELSE IF branch = "row"
       THEN \* lines 106-128
            /\ exported < MaxRows
            /\ files' = [files EXCEPT ![csv_writers[hypo]] =
                            Append(@, CsvRow(result, frame))]
            /\ exported' = exported + 1
            /\ last' = [call EXCEPT
                           !.appended = 1,
                           !.src_score = IF fmt = "n7" THEN NoScore
                                         ELSE score,
                           !.conf = result.conf,
                           !.row = CsvRow(result, frame)]
       ELSE /\ last' = call
            /\ UNCHANGED <<files, exported>>

\* Cleared that leaves the entries registered.
ClearedKept(d) == d

\* close_files lines 136-137: a dict after clear().
Cleared(d) == EmptyMap

\* CSVExporter.close_files
CloseFiles ==
    LET still == ClosedFiles(csv_files, open_sinks) IN
    /\ deployment = "export"
    /\ csv_files' = Cleared(csv_files)
    /\ csv_writers' = Cleared(csv_writers)
    /\ open_sinks' = still
    /\ last' = [NoCall EXCEPT
                   !.op = "close",
                   !.closed = Cardinality(open_sinks \ still),
                   !.again = (last.op = "close"),
                   !.changed = (<<Cleared(csv_files), Cleared(csv_writers),
                                  still>>
                                # <<csv_files, csv_writers, open_sinks>>)]
    /\ UNCHANGED <<live_vars, sessions, nz_vars, tool_vars, num_hypo, files, seq_name,
                   exported>>

NextExport == InitSequenceFiles \/ ExportResult \/ CloseFiles

SpecExport == InitExport /\ [][NextExport]_vars

\* ------------------------------------------- export_tracking_results_csv
\* The result lists of one hypothesis: up to MaxRows results, each with a
\* type id and a confidence.
ResultLists ==
    UNION {[1..k -> [type_id : {2, 4}, conf : Scores]] : k \in 0..MaxRows}

\* The loop over the results of one hypothesis (lines 201-203): the rows
\* export_result writes for results i.. of the list, up to the first result
\* whose type id raises KeyError.
RECURSIVE ExportFrom(_, _, _, _)
ExportFrom(list, i, frame, threshold) ==
    IF i > Len(list) THEN [rows |-> <<>>, raised |-> FALSE]
    ELSE
    LET result == FallbackResult(frame, i - 1, list[i].type_id, list[i].conf)
        branch == ExportBranch(TRUE, result.type_id \in DOMAIN DetId2Str,
                               result.conf >= threshold)
    IN
    IF branch = "keyerror" THEN [rows |-> <<>>, raised |-> TRUE]
    ELSE LET rest == ExportFrom(list, i + 1, frame, threshold) IN
         IF branch = "row"
         THEN [rest EXCEPT !.rows = <<CsvRow(result, frame)>> \o @]
         ELSE rest

\* export_tracking_results_csv(save_dir, seq, results_data, det_id2str,
\* frame, threshold, nh): a new CSVExporter, init_sequence_files, one
\* export_result per result, close_files.  open() of hypothesis fail_at
\* raises (fail_at = nh: none does).  Nothing catches an exception, so a
\* call that raises never reaches close_files and the sinks it opened stay
\* open.
ExportTrackingResultsCsv ==
    \E seq \in SeqNames, nh \in 1..MaxHypo, frame \in 0..MaxIdx,
       threshold \in Scores :
    \E fail_at \in 0..nh, results_data \in [0..(nh - 1) -> ResultLists] :
    LET path(h) == [seq |-> seq, hypo |-> h]
        opened == {path(h) : h \in 0..(fail_at - 1)}
        done(h) == ExportFrom(results_data[h], 1, frame, threshold)
        failed == {h \in 0..(nh - 1) : done(h).raised}
        \* the hypothesis at which the loop was left, nh when it was not
        stop == IF fail_at < nh THEN -1
                ELSE IF failed = {} THEN nh
                ELSE CHOOSE h \in failed : \A g \in failed : h <= g
        written(h) == IF h <= stop THEN done(h).rows ELSE <<>>
        before(f) == IF f \in DOMAIN files THEN Len(files[f]) - 1 ELSE 0
    IN
    /\ deployment = "standalone"
    /\ fail_at < nh => \A h \in 0..(nh - 1) : results_data[h] = <<>>
    /\ files' = [f \in DOMAIN files \cup opened |->
                    IF f \in opened
                    THEN <<CsvHeader>> \o written(f.hypo)
                    ELSE files[f]]
    /\ open_sinks' = IF stop < nh THEN open_sinks \cup opened ELSE open_sinks
    /\ seq_name' = seq
    /\ last' = [op |-> "standalone", raised |-> (stop < nh),
                open_failed |-> (fail_at < nh), seq |-> seq,
                nh |-> nh, frame |-> frame, threshold |-> threshold,
                results_data |-> results_data,
                truncated |-> IF \E f \in opened : before(f) > 0
                              THEN 1 ELSE 0]
    /\ UNCHANGED <<live_vars, sessions, nz_vars, tool_vars, num_hypo, csv_files,
                   csv_writers, exported>>

NextStandalone == ExportTrackingResultsCsv

SpecStandalone == InitStandalone /\ [][NextStandalone]_vars

\* ---------------------------------------------- type ids and the normalizer
\* GetTypeId that answers the default for every category.
GetTypeIdDefaultOnly(table, cat) == DefaultTypeId

\* RealtimeTracker._get_type_id: the first id of the table, in the order of
\* its entries, whose name is the category; the default when there is none.
GetTypeId(table, cat) ==
    IF \E t \in DOMAIN table : table[t] = cat
    THEN CHOOSE t \in DOMAIN table :
            /\ table[t] = cat
            /\ \A u \in DOMAIN table : table[u] = cat => t <= u
    ELSE DefaultTypeId

\* A call of self.tracker._get_type_id().  Neither it nor the normalizers
\* keep any state from one call to the next, so one call is made on each
\* tracker drawn.
GetTypeIdCall ==
    /\ deployment = "normalizer"
    /\ parsed = NoParse
    /\ parsed' = [op |-> "get_type_id",
                  type_id |-> GetTypeId(det_id2str, category),
                  raised |-> FALSE]
    /\ UNCHANGED <<live_vars, sessions, ex_vars, det_id2str, category,
                   tool_vars>>

\* A numpy array is given by its shape and the value of its first element:
\* the element at flat position p holds base + p, so that every element of
\* an array can be told from the others.  Mat is the array of r rows and c
\* columns as a sequence of rows.
Mat(r, c, base) ==
    [i \in 1..r |-> [j \in 1..c |-> base + (i - 1) * c + (j - 1)]]

\* The slice m[:, a:b].
Cols(m, a, b) ==
    [i \in 1..Len(m) |-> SubSeq(m[i], a + 1, Min(b, Len(m[i])))]

\* The result of a normalizer call: a payload of dets and info, whether a
\* warning and whether an error was reported; or an exception.
ParsedPayload(dets, dets_w, info, info_w, warned) ==
    [status |-> "returned", dets |-> dets, dets_w |-> dets_w, info |-> info,
     info_w |-> info_w, warned |-> warned, error |-> FALSE]

\* np.empty((0, 7)) for dets and for info.
EmptyPayload == ParsedPayload(<<>>, DetsWidth, <<>>, DetsWidth, FALSE)

Failed == [EmptyPayload EXCEPT !.status = "raised"]

\* _generate_default_info: orientation from column 6 of dets, a zero 2D
\* box, the type id and the scores.
GenerateDefaultInfo(dets, type_id, scores) ==
    [i \in 1..Len(dets) |->
        Cols(dets, 6, 7)[i] \o <<0, 0, 0, 0>> \o <<type_id>> \o scores[i]]

\* np.ones((N, 1)), in hundredths.
Ones(N) == [i \in 1..N |-> <<DefaultScore>>]

\* The numpy-array case of _parse_detection_input (resilient component
\* lines 375-446, legacy component lines 218-263).  flattened is TRUE for the
\* resilient component, which reshapes a (1, 8k) and a flat 8k buffer to
\* (k, 8); the legacy component reshapes every flat buffer to one row.
\* An array of no dimension has no shape[0], and an array of three
\* dimensions cannot be concatenated with the 2-D columns of info: both
\* raise.
ParseArray(shape, base, flattened, type_id) ==
    IF Len(shape) = 0 THEN Failed
    ELSE IF shape[1] = 0 THEN EmptyPayload
    ELSE
    LET s == IF flattened /\ Len(shape) = 2 /\ shape[1] = 1
                /\ shape[2] % 8 = 0
             THEN <<shape[2] \div 8, 8>>
             ELSE IF Len(shape) = 1
             THEN IF flattened /\ shape[1] % 8 = 0
                  THEN <<shape[1] \div 8, 8>>
                  ELSE <<1, shape[1]>>
             ELSE shape
    IN
    IF Len(s) > 2 THEN Failed
    ELSE
    LET N == s[1]
        m == Mat(N, s[2], base)
    IN
    IF s[2] = 7
    THEN ParsedPayload(m, 7, GenerateDefaultInfo(m, type_id, Ones(N)), 7,
                       FALSE)
    ELSE IF s[2] = 8
    THEN ParsedPayload(Cols(m, 0, 7), 7,
                       GenerateDefaultInfo(Cols(m, 0, 7), type_id,
                                           Cols(m, 7, 8)), 7, FALSE)
    ELSE IF s[2] = 15
    THEN ParsedPayload(Cols(m, 6, 13), 7,
                       [i \in 1..N |->
                           Cols(m, 13, 14)[i] \o Cols(m, 1, 5)[i]
                           \o <<type_id>> \o Cols(m, 14, 15)[i]], 7, FALSE)
    ELSE ParsedPayload(Cols(m, 0, 7), Min(s[2], 7),
                       GenerateDefaultInfo(Cols(m, 0, 7), type_id, Ones(N)),
                       IF s[2] < 7 THEN 6 ELSE 7, TRUE)

\* The dict case: np.array of dets and of info, a flat one reshaped to one
\* row, returned as they are.
AsRows(a) ==
    IF Len(a.shape) = 1 THEN Mat(1, a.shape[1], a.base)
    ELSE Mat(a.shape[1], a.shape[2], a.base)

DictPayload(input) ==
    ParsedPayload(AsRows(input.dets), input.dets.shape[Len(input.dets.shape)],
                  AsRows(input.info), input.info.shape[Len(input.info.shape)],
                  FALSE)

\* The except clause: the error is reported and an empty payload returned.
Caught(r) ==
    IF r.status = "raised" THEN [EmptyPayload EXCEPT !.error = TRUE] ELSE r

\* np.array(input_data) of an input that is no array: the array of a list
\* has the shape of the list, a dict or a scalar gives an array of no
\* dimension.
AsArray(input) ==
    IF input.kind = "dict" THEN [shape |-> <<>>, base |-> 0]
    ELSE [shape |-> input.shape, base |-> input.base]

HasDetsAndInfo(input) ==
    input.kind = "dict" /\ {"dets", "info"} \subseteq input.keys

\* _parse_detection_input of the resilient component: the whole body is
\* inside try, and the call on the converted input is the same function.
ResilientParse(input, type_id) ==
    IF HasDetsAndInfo(input) THEN DictPayload(input)
    ELSE IF input.kind = "ndarray"
    THEN Caught(ParseArray(input.shape, input.base, TRUE, type_id))
    ELSE [Caught(ParseArray(AsArray(input).shape, AsArray(input).base, TRUE,
                            type_id)) EXCEPT !.warned = TRUE]

\* _parse_detection_input of the legacy component: only the call on the
\* converted input is inside try.
LegacyParse(input, type_id) ==
    IF HasDetsAndInfo(input) THEN DictPayload(input)
    ELSE IF input.kind = "ndarray"
    THEN ParseArray(input.shape, input.base, FALSE, type_id)
    ELSE [Caught(ParseArray(AsArray(input).shape, AsArray(input).base, FALSE,
                            type_id)) EXCEPT !.warned = TRUE]

\* The inputs drawn: arrays of no, one, two and three dimensions whose
\* first element is negative or positive; lists and scalars; dicts with
\* and without the keys dets and info.
BufShapes ==
    {<<>>} \cup {<<n>> : n \in 0..MaxBufCols}
    \cup {<<n, c>> : n \in 0..MaxBufRows, c \in 0..MaxBufCols}
    \cup {<<n, c, 2>> : n \in 1..MaxBufRows, c \in {7, 8}}

Bases == {-2, 1}

DictShapes == {<<0>>, <<7>>} \cup {<<n, 7>> : n \in 0..MaxBufRows}

NormInputs ==
    {[kind |-> "ndarray", shape |-> sh, base |-> b] :
        sh \in BufShapes, b \in Bases}
    \cup {[kind |-> "other", shape |-> sh, base |-> 1] :
            sh \in {<<>>, <<0>>, <<7>>, <<16>>, <<2, 8>>}}
    \cup {[kind |-> "dict", keys |-> {"dets", "info"},
           dets |-> [shape |-> d, base |-> b],
           info |-> [shape |-> i, base |-> 1]] :
            d \in DictShapes, i \in DictShapes, b \in Bases}
    \cup {[kind |-> "dict", keys |-> k] :
            k \in {{}, {"dets"}, {"info"}}}

\* A call of _parse_detection_input of the resilient component.
ParseDetectionInput ==
    \E input \in NormInputs :
    /\ deployment = "normalizer"
    /\ parsed = NoParse
    /\ parsed' = [op |-> "parse", component |-> "resilient",
                  input |-> input,
                  result |-> ResilientParse(input,
                                 GetTypeId(det_id2str, category))]
    /\ UNCHANGED <<live_vars, sessions, ex_vars, det_id2str, category,
                   tool_vars>>

\* A call of _parse_detection_input of the legacy component.
LegacyParseDetectionInput ==
    \E input \in NormInputs :
    /\ deployment = "normalizer"
    /\ parsed = NoParse
    /\ parsed' = [op |-> "parse", component |-> "legacy",
                  input |-> input,
                  result |-> LegacyParse(input,
                                 GetTypeId(det_id2str, category))]
    /\ UNCHANGED <<live_vars, sessions, ex_vars, det_id2str, category,
                   tool_vars>>

NextNorm == GetTypeIdCall \/ ParseDetectionInput \/ LegacyParseDetectionInput

SpecNorm == InitNorm /\ [][NextNorm]_vars

\* ---------------------------------------------------- detector-file readers
\* round(value, 4) of a whole number.
Round4(v) == (v * 10000) \div 10000

\* verify_confidence_unchanged.load_pointrcnn_detections on the lines whose
\* fields are the rows given: lines of fewer than 15 fields are skipped.
LoadPointrcnnDetections(rows) ==
    LET kept == SelectSeq(rows, LAMBDA fields : Len(fields) >= 15)
    IN  [i \in 1..Len(kept) |->
            [frame |-> kept[i][1], confidence |-> kept[i][7],
             x_3d |-> kept[i][11], y_3d |-> kept[i][12],
             z_3d |-> kept[i][13]]]

\* compare_confidence_scores.load_detection_file on the same lines.
LoadDetectionFile(rows) ==
    LET kept == SelectSeq(rows, LAMBDA fields : Len(fields) >= 15)
    IN  [i \in 1..Len(kept) |->
            [frame |-> kept[i][1], confidence |-> kept[i][7],
             x_3d |-> Round4(kept[i][11]), y_3d |-> Round4(kept[i][12]),
             z_3d |-> Round4(kept[i][13])]]

\* ----------------------------------------------------- SimpleTrackerLogger
\* _simple_tracking_fallback lines 504-524: the 15-field result of each
\* detection, [h, w, l, x, y, z, theta, ID, ori, type_id, bbox2d(4), conf],
\* from its dets row and its info row [ori, bbox2d(4), type_id, score];
\* the ID is frame_idx * 100 + i.  Values are in hundredths.
SimpleTrackingFallback(dets, info, idx) ==
    [k \in 1..Len(dets) |->
        dets[k] \o <<(idx * 100 + (k - 1)) * 100>> \o <<info[k][1]>>
        \o <<info[k][6]>> \o SubSeq(info[k], 2, 5) \o <<info[k][7]>>]

\* What the tracker component writes on its tracks output for a frame of n
\* detections in an (n, 7) buffer: the results cut to max_safe_tracks rows.
Emitted(n, base, idx) ==
    LET p == ParseArray(<<n, 7>>, base, TRUE, DefaultTypeId)
        rows == SimpleTrackingFallback(p.dets, p.info, idx)
    IN  SubSeq(rows, 1, Min(Len(rows), MaxSafeTracks))

\* int(v): the whole part of v, towards zero.
IntOf(v) == IF v >= 0 THEN v \div 100 ELSE -((-v) \div 100)

\* f"{v:.3f}": v in thousandths.
Fmt3(v) == v * 10

LogHeader == "Frame,Timestamp,TrackID,X,Y,Z,Width,Height,Length,Rotation,Confidence"

\* Lines 57-63: the line logged for one track.
LogLine(frame, timestamp, track) ==
    [Frame |-> frame, Timestamp |-> timestamp, TrackID |-> IntOf(track[1]),
     X |-> Fmt3(track[2]), Y |-> Fmt3(track[3]), Z |-> Fmt3(track[4]),
     Width |-> Fmt3(track[5]), Height |-> Fmt3(track[6]),
     Length |-> Fmt3(track[7]), Rotation |-> Fmt3(track[8]),
     Confidence |-> IF Len(track) > 14 THEN Fmt3(track[15]) ELSE Fmt3(0)]

InitLogger ==
    /\ InitWith({"logger"}, {NoProps}, MaxFrames)
    /\ sessions = EmptyMap
    /\ ExporterInit({0})
    /\ TrackerInit({DetId2Str}, {"Car"})
    /\ ThresholdIdle
    /\ CsvNormInit({<<>>}, {})
    /\ LoggerIdle

\* SimpleTrackerLogger.Birth: the counter, the properties, and the log file
\* opened with mode 'w' for the header.
LoggerBirth ==
    \E interval \in 1..2 :
    /\ deployment = "logger"
    /\ lg_frame_count' = 0
    /\ log_interval' = interval
    /\ log_file' = <<LogHeader>>
    /\ logged' = NoLog
    /\ UNCHANGED <<live_vars, sessions, ex_vars, nz_vars, th_vars, cn_vars>>

\* The first elements of the inputs drawn, in hundredths.
LogBases == {-250, 100}

\* SimpleTrackerLogger.Core: nothing without an input; the frame counter;
\* every log_interval frames one line per track received.
LoggerCore ==
    \E has_input \in BOOLEAN, timestamp \in {10, 20}, n \in 0..MaxDets,
       base \in LogBases, idx \in 0..MaxIdx, short \in BOOLEAN :
    LET tracks_data == IF short THEN Mat(1, 8, base)
                       ELSE Emitted(n, base, idx)
        count == lg_frame_count + 1
        lines == IF count % log_interval = 0
                 THEN [k \in 1..Len(tracks_data) |->
                          LogLine(count, timestamp, tracks_data[k])]
                 ELSE <<>>
    IN
    /\ deployment = "logger"
    /\ log_interval > 0
    /\ lg_frame_count < MaxLogFrames
    /\ ~has_input => timestamp = 10 /\ n = 0 /\ base = 100 /\ idx = 0 /\ ~short
    /\ (short \/ n = 0) => idx = 0
    /\ short => n = 0
    /\ IF ~has_input
       THEN /\ logged' = [op |-> "noinput", tracks |-> <<>>, lines |-> <<>>]
            /\ UNCHANGED <<lg_frame_count, log_file>>
       ELSE /\ lg_frame_count' = count
            /\ log_file' = log_file \o lines
            /\ logged' = [op |-> "core", tracks |-> tracks_data,
                          lines |-> lines]
    /\ UNCHANGED <<live_vars, sessions, ex_vars, nz_vars, th_vars, cn_vars,
                   log_interval>>

NextLogger == LoggerBirth \/ LoggerCore

SpecLogger == InitLogger /\ [][NextLogger]_vars

\* ----------------------------------------------- run_with_custom_threshold
\* utils.py whose pointrcnn line is laid out differently, so that it does
\* not contain old_line.
ReformattedUtils == [car |-> "3.24"]

\* A file that was opened for writing and never written.
Truncated == [car |-> ""]

InitThreshold ==
    /\ InitWith({"threshold"}, {NoProps}, MaxFrames)
    /\ sessions = EmptyMap
    /\ ExporterInit({0})
    /\ TrackerInit({DetId2Str}, {"Car"})
    /\ utils_file \in {OriginalUtils, ReformattedUtils}
    /\ backup_file = NoFile
    /\ ran = NoRun
    /\ CsvNormInit({<<>>}, {})
    /\ LoggerIdle

\* sys.argv[1:] of a run: no argument, one argument, two arguments.
Args == {"abc", "1", "1.0", "-10.0", "3.240738"}

ArgLists == {<<>>, <<"1.0", "2.0">>} \cup {<<a>> : a \in Args}

\* float(sys.argv[1]) raises ValueError for a string that is no number.
IsFloat(str) == str \in {"1", "1.0", "-10.0", "3.240738"}

\* float(sys.argv[1]) in millionths.
Float(str) ==
    CASE str = "1" -> 1000000
      [] str = "1.0" -> 1000000
      [] str = "-10.0" -> -10000000
      [] str = "3.240738" -> 3240738

\* The f-string formatting of a float.
Format(f) ==
    CASE f = 1000000 -> "1.0"
      [] f = -10000000 -> "-10.0"
      [] f = 3240738 -> "3.240738"

\* content.replace(old_line, new_line): old_line is the pointrcnn line with
\* 'Car': 3.240738.
Replace(content, new_threshold) ==
    IF content = OriginalUtils THEN [car |-> Format(new_threshold)]
    ELSE content

\* The step of a run at which the file system fails, and how the tracking
\* run ends: os.system returns whatever the exit status, and Ctrl-C raises
\* KeyboardInterrupt.
Faults == {"none", "copy", "read", "open", "write", "restore", "remove"}

Runs == {"ok", "failed", "interrupted"}

\* restore_threshold: shutil.copy2(backup_file, utils_file).
Restored(backup, current) == backup

\* main(): the argument checks, modify_threshold outside the try, the
\* tracking run inside it and restore_threshold in the finally clause.
Main ==
    \E argv \in ArgLists, fault \in Faults, run \in Runs :
    LET numeric == Len(argv) = 1 /\ IsFloat(argv[1])
        modified == Replace(utils_file, Float(argv[1]))
        in_modify == fault \in {"copy", "read", "open", "write"}
    IN
    /\ deployment = "threshold"
    /\ (~numeric \/ in_modify) => (fault = "none" \/ numeric) /\ run = "ok"
    /\ ran' = [numeric |-> numeric, fault |-> fault, run |-> run,
               raised |-> numeric /\ (fault # "none" \/ run = "interrupted"),
               before |-> utils_file, argv |-> argv]
    /\ IF ~numeric \/ fault = "copy"
       THEN UNCHANGED <<utils_file, backup_file>>
       ELSE IF fault \in {"read", "open"}
       THEN backup_file' = utils_file /\ UNCHANGED utils_file
       ELSE IF fault = "write"
       THEN backup_file' = utils_file /\ utils_file' = Truncated
       ELSE IF fault = "restore"
       THEN backup_file' = utils_file /\ utils_file' = modified
       ELSE /\ utils_file' = Restored(utils_file, modified)
            /\ backup_file' = IF fault = "remove" THEN utils_file ELSE NoFile
    /\ UNCHANGED <<live_vars, sessions, ex_vars, nz_vars, cn_vars, lg_vars>>

NextThreshold == Main

SpecThreshold == InitThreshold /\ [][NextThreshold]_vars

\* ------------------------------------------------ normalize_tracking_results
\* The detector scores of the rows of a tracking-result file, in hundredths.
NormScores == {-268, 0, 324, 6000}

ScoreLists == UNION {[1..k -> NormScores] : k \in 0..MaxCsvRows}

InitCsvNorm ==
    /\ InitWith({"csvnorm"}, {NoProps}, MaxFrames)
    /\ sessions = EmptyMap
    /\ ExporterInit({0})
    /\ TrackerInit({DetId2Str}, {"Car"})
    /\ ThresholdIdle
    /\ CsvNormInit(ScoreLists, {OtherTable})
    /\ LoggerIdle

\* np.clip(raw_scores, -50, 50).
Clip(x) == IF x < -5000 THEN -5000 ELSE IF x > 5000 THEN 5000 ELSE x

\* 1 / (1 + exp(-x)) in hundredths, rounded to the nearest, for the scores
\* drawn and for every value it gives on them.
Logistic(x) ==
    CASE x = -268 -> 6   [] x = 0 -> 50   [] x = 324 -> 96  [] x = 5000 -> 100
      [] x = 6 -> 51     [] x = 50 -> 62  [] x = 96 -> 72   [] x = 100 -> 73
      [] x = 51 -> 62    [] x = 62 -> 65  [] x = 72 -> 67   [] x = 73 -> 67
      [] x = 65 -> 66    [] x = 67 -> 66  [] x = 66 -> 66

\* sigmoid_normalize on one score.
SigmoidNormalize(x) == Logistic(Clip(x))

\* Lines 58-71: the frame whose confidence_score_raw is the column read and
\* whose confidence_score is its sigmoid.
Normalized(df) ==
    [cols |-> df.cols \cup {"confidence_score_raw"},
     conf |-> [i \in 1..Len(df.conf) |-> SigmoidNormalize(df.conf[i])],
     raw |-> df.conf]

\* normalize_csv_file on the tracking-result file: what it returns and the
\* three files after it.  The minimum of no rows raises ValueError after
\* the file was saved, and the call returns False.
NormalizeCsvFile(df, in_place, create_backup, fault, backup, output) ==
    IF fault = "read" \/ "confidence_score" \notin df.cols
    THEN [returned |-> FALSE, saved |-> FALSE, table |-> df,
          backup |-> backup, output |-> output]
    ELSE LET kept == IF create_backup THEN df ELSE backup
         IN  IF fault = "save"
             THEN [returned |-> FALSE, saved |-> FALSE, table |-> df,
                   backup |-> kept, output |-> output]
             ELSE [returned |-> Len(df.conf) > 0, saved |-> TRUE,
                   table |-> IF in_place THEN Normalized(df) ELSE df,
                   backup |-> kept,
                   output |-> IF in_place THEN output ELSE Normalized(df)]

\* A call of normalize_csv_file(input_path, output_path, create_backup).
NormalizeCsvFileCall ==
    \E in_place \in BOOLEAN, create_backup \in BOOLEAN,
       fault \in {"none", "read", "save"} :
    LET r == NormalizeCsvFile(csv_table, in_place, create_backup, fault,
                              csv_backup, csv_output)
    IN
    /\ deployment = "csvnorm"
    /\ norm_calls < MaxNormCalls
    /\ fault = "read" => in_place /\ create_backup
    /\ csv_table' = r.table
    /\ csv_backup' = r.backup
    /\ csv_output' = r.output
    /\ norm_calls' = IF r.saved /\ in_place THEN norm_calls + 1
                     ELSE norm_calls
    /\ norm_last' = [op |-> "normalize_csv_file", returned |-> r.returned,
                     saved |-> r.saved /\ in_place]
    /\ UNCHANGED <<live_vars, sessions, ex_vars, nz_vars, th_vars, lg_vars,
                   original_scores>>

\* process_all_tracking_results in a directory that holds the file: both
\* glob patterns match it, so it is in csv_files twice; the run stops when
\* the file has no confidence_score column or the answer is not yes;
\* backups are made for the first three entries.
ProcessAllTrackingResults ==
    \E response \in {"y", "n"} :
    LET first == NormalizeCsvFile(csv_table, TRUE, TRUE, "none", csv_backup,
                                  csv_output)
        second == NormalizeCsvFile(first.table, TRUE, TRUE, "none",
                                   first.backup, first.output)
        go == response = "y" /\ "confidence_score" \in csv_table.cols
                /\ Len(csv_table.conf) > 0
    IN
    /\ deployment = "csvnorm"
    /\ norm_calls + 2 <= MaxNormCalls
    /\ csv_table' = IF go THEN second.table ELSE csv_table
    /\ csv_backup' = IF go THEN second.backup ELSE csv_backup
    /\ norm_calls' = IF go THEN norm_calls + 2 ELSE norm_calls
    /\ norm_last' = [op |-> "process_all", returned |-> FALSE,
                     saved |-> go]
    /\ UNCHANGED <<live_vars, sessions, ex_vars, nz_vars, th_vars, lg_vars,
                   original_scores, csv_output>>

NextCsvNorm == NormalizeCsvFileCall \/ ProcessAllTrackingResults

SpecCsvNorm == InitCsvNorm /\ [][NextCsvNorm]_vars

\* ================================================================= claims
Live == deployment \in {"resilient", "legacy"}
Resilient == deployment = "resilient"

\* A step that is a Core call of the resilient component.
ResilientCall == Resilient /\ phase = "running" /\ outcome' # "none"

\* The latest two Core calls of the resilient component were less than the
\* minimum interval apart.
ClosePair ==
    /\ Resilient
    /\ prev_outcome # "none"
    /\ outcome # "none"
    /\ gap < min_process_interval

\* C1: after exactly max_errors consecutive frames whose processing raised
\* a fault (max_errors >= 1), the next frame is skipped and the tracking
\* step is not invoked.
C1Claim ==
    [][(ResilientCall /\ max_errors >= 1 /\ fault_run = max_errors)
        => (outcome' \in {"dropped", "skipped", "nodata"} /\ ~invoked')]_vars

\* C2: every fault raised by the tracking step while a live frame is being
\* processed increments the consecutive-error counter by exactly one.
C2Claim ==
    [][(ResilientCall /\ outcome' = "track_fault")
        => error_count' = error_count + 1]_vars

\* C3: a fault raised by the tracking step during a live frame is caught
\* inside Core: Core returns to the scheduler and the tracks output written
\* for the frame is one empty result.  Core raises only in the legacy
\* component, and only when the tracks sink refuses the handler's write.
C3Theorem ==
    (Live /\ outcome = "track_fault") =>
        /\ \A i \in DOMAIN outputs.tracks : outputs.tracks[i] = 0
        /\ Len(outputs.tracks) <= 1
        /\ sink_fault = "none" => (outputs.tracks = <<0>> /\ ~raised)
        /\ raised => (deployment = "legacy" /\ sink_fault # "none")
        /\ (Resilient /\ sink_fault = "first") => outputs.tracks = <<0>>

C3Witness ==
    /\ Resilient
    /\ outcome = "track_fault"
    /\ invoked
    /\ outputs.tracks = <<0>>
    /\ ~raised

\* C4: RealtimeTracker.track_frame never raises to its caller, whatever the
\* column count of the detections and whether or not the tracking core
\* faults.
C4Claim == deployment = "batch" => ~raised

\* C5: every frame of the live component that passes the rate-limit check
\* leads to exactly one write on the tracks output before Core returns.
C5Claim ==
    (Resilient /\ outcome \notin {"none", "dropped"})
        => Len(outputs.tracks) = 1

\* C6: once the error counter has reached max_errors the circuit stays
\* open: every later Core call leaves the error counter unchanged and does
\* not invoke the tracking step.
C6Theorem ==
    [][(Resilient /\ error_count >= max_errors) =>
          /\ error_count' = error_count
          /\ max_errors' = max_errors
          /\ ~invoked'
          /\ outcome' \in {"none", "dropped", "skipped"}
          /\ frame_count' = frame_count \/ phase = "dead"]_vars

C6Witness ==
    /\ Resilient
    /\ error_count >= max_errors
    /\ prev_outcome = "skipped"
    /\ outcome = "skipped"

\* C7 as claimed: of two frames submitted less than the minimum interval
\* apart exactly one is processed.
C7Claim == ClosePair => (Processed(prev_outcome) # Processed(outcome))

\* C7 as amended: of two frames submitted less than the minimum interval
\* apart at most one is processed, and when the first is processed the
\* second is dropped.
C7Theorem ==
    ClosePair =>
        /\ ~(Processed(prev_outcome) /\ Processed(outcome))
        /\ Processed(prev_outcome) => outcome = "dropped"

C7Witness == ClosePair /\ Processed(prev_outcome) /\ outcome = "dropped"

\* C8: after a frame has passed the rate-limit check, whatever happens to
\* it afterwards, a frame arriving less than the minimum interval later is
\* dropped.
C8Claim == (ClosePair /\ prev_outcome # "dropped") => outcome = "dropped"

\* C9: the session is reset exactly when the count of successfully
\* processed frames reaches a positive multiple of the reset interval, and
\* frames that were dropped, skipped or whose tracking step faulted do not
\* advance the count.
C9Claim ==
    [][ResilientCall =>
          /\ (tracker' # tracker) <=>
                (/\ frame_count' = frame_count + 1
                 /\ frame_count' % ResetInterval = 0)
          /\ outcome' \in {"dropped", "skipped", "track_fault"}
                => frame_count' = frame_count]_vars

\* C10: the first frame processed after a periodic reset, when no frame
\* index is supplied, is processed with frame index 0.
C10Claim ==
    (Resilient /\ Processed(outcome) /\ since_reset = 1
       /\ supplied_idx = NoIdx) => frame_idx = 0

Batch == deployment = "batch"

\* C11: RealtimeTracker's frame counter is 0 after construction and after
\* reset(), and otherwise the number of track_frame calls that returned
\* since: a returning call advances it by exactly one whether or not
\* frame_idx was supplied, and a raising call leaves it alone.  A supplied
\* index is the one used for the frame; a call without frame_idx uses the
\* counter's value before the call.
C11Theorem ==
    Batch =>
        /\ rt_frame_count = rt_returned
        /\ outcome \in {"none", "reset"} => rt_frame_count = 0
        /\ outcome = "returned" =>
              /\ rt_frame_count >= 1
              /\ supplied_idx = NoIdx => frame_idx = rt_frame_count - 1
              /\ supplied_idx # NoIdx => frame_idx = supplied_idx

C11Witness ==
    /\ Batch
    /\ outcome = "returned"
    /\ supplied_idx = 0
    /\ frame_idx = 0
    /\ rt_frame_count = 2
    /\ rt_returned = 2

\* C12: reset() of a session replaces the tracking core it holds by a newly
\* created instance.
C12Claim == [][(Batch /\ outcome' = "reset") => core' # core]_vars

\* C13: every frame counted by a frame counter, the component's or
\* RealtimeTracker's, had its tracking step invoked.
C13Claim ==
    [][(frame_count' = frame_count + 1
          \/ rt_frame_count' = rt_frame_count + 1) => invoked']_vars

\* C14: the tracks output of a processed live frame holds every result the
\* tracking step produced for the frame.
C14Claim ==
    (Live /\ outcome = "processed" /\ sink_fault = "none")
        => outputs.tracks = <<produced>>

\* C16: the track ids of a processed frame are non-negative and differ from
\* those of the frame the session processed in the call before.
C16Claim ==
    [][(Resilient /\ phase = "running" /\ Processed(outcome')) =>
          \A i \in DOMAIN ids' :
              /\ ids'[i] >= 0
              /\ \A j \in DOMAIN ids : ids'[i] # ids[j]]_vars

\* C17: two successive frames, processed one after the other with the
\* internal frame index and holding one detection each, give results with
\* the same track id and consecutive frame values.
C17Claim ==
    [][(/\ Resilient /\ phase = "running"
        /\ outcome = "processed" /\ supplied_idx = NoIdx /\ Len(ids) = 1
        /\ outcome' = "processed" /\ supplied_idx' = NoIdx
        /\ Len(ids') = 1) =>
          /\ ids' = ids
          /\ frame_idx' = frame_idx + 1]_vars

\* C15: two live sessions configured with different ID_init never emit the
\* same track id.
C15Claim ==
    (deployment = "sessions" /\ sessions[1].ID_init # sessions[2].ID_init)
        => \A i \in DOMAIN sessions[1].ids, j \in DOMAIN sessions[2].ids :
              sessions[1].ids[i] # sessions[2].ids[j]

\* C18: export_result on an open sink appends exactly one row iff the
\* result's confidence is at least the threshold.
C18Claim ==
    (last.op = "export" /\ last.sink_open)
        => (last.appended = 1 <=> last.passes)

C20Theorem ==
    deployment = "export" =>
        /\ Cardinality(open_sinks) <= num_hypo
        /\ open_sinks = {csv_files[h] : h \in DOMAIN csv_files}
        /\ csv_writers = csv_files
        /\ \A f \in open_sinks : f.seq = seq_name /\ f \in DOMAIN files
        /\ last.op = "init" =>
              \A f \in open_sinks : files[f] = <<CsvHeader>>

C20Witness ==
    /\ last.op = "init"
    /\ last.closed = 1
    /\ ~last.raised
    /\ Cardinality(open_sinks) = num_hypo
    /\ \E f \in DOMAIN files : f.seq # seq_name /\ Len(files[f]) > 1

\* C21: after any close_files call no sink is open, no file and no writer
\* is registered and nothing was raised; a close_files call that follows
\* another close_files call closes nothing and leaves the dicts, the open
\* handles and the files as they were.
C21Theorem ==
    last.op = "close" =>
        /\ open_sinks = {}
        /\ csv_files = EmptyMap
        /\ csv_writers = EmptyMap
        /\ ~last.raised
        /\ last.again => (last.closed = 0 /\ ~last.changed)

\* close_files was called right after close_files, after a sequence had
\* been opened.
C21Witness ==
    /\ last.op = "close"
    /\ last.again
    /\ last.closed = 0
    /\ open_sinks = {}
    /\ csv_writers = EmptyMap
    /\ \E f \in DOMAIN files : f.seq = seq_name

\* C22: within a session, of two frames processed one after the other the
\* later one carries a frame index at least as large as the earlier one,
\* whether the index came from the frame counter or from the caller.
C22Claim ==
    [][(/\ phase = "running"
        /\ phase' = "running"
        /\ outcome \in {"processed", "returned"}
        /\ outcome' \in {"processed", "returned"})
       => frame_idx' >= frame_idx]_vars

\* C23: _get_type_id never raises; for a category that is a name of the
\* tracker's table it returns an id of the table whose name is that
\* category, and for any other category it returns 2.
C23Theorem ==
    parsed.op = "get_type_id" =>
        /\ ~parsed.raised
        /\ (\E t \in DOMAIN det_id2str : det_id2str[t] = category)
              => /\ parsed.type_id \in DOMAIN det_id2str
                 /\ det_id2str[parsed.type_id] = category
        /\ (\A t \in DOMAIN det_id2str : det_id2str[t] # category)
              => parsed.type_id = 2

\* The category Truck was resolved under the nuScenes table.
C23Witness ==
    /\ parsed.op = "get_type_id"
    /\ det_id2str = DetId2StrNuScenes
    /\ category = "Truck"
    /\ parsed.type_id = 7

\* C24: export_result never raises, whatever the type id of the result.
C24Claim == last.op = "export" => ~last.raised

\* The latest call was a normalizer call.
Parse == parsed.op = "parse"

\* An N x 7, N x 8 or N x 15 buffer, or a flat buffer whose length is a
\* multiple of 8, and the number of detections it holds.
Supported(input) ==
    /\ input.kind = "ndarray"
    /\ \/ Len(input.shape) = 2 /\ input.shape[2] \in {7, 8, 15}
       \/ Len(input.shape) = 1 /\ input.shape[1] % 8 = 0

Logical(input) ==
    IF Len(input.shape) = 2 THEN input.shape[1] ELSE input.shape[1] \div 8

\* C25: for a supported buffer the normalizer returns dets and info with
\* as many rows as the buffer holds detections.
C25Claim ==
    (Parse /\ Supported(parsed.input)) =>
        /\ parsed.result.status = "returned"
        /\ Len(parsed.result.dets) = Logical(parsed.input)
        /\ Len(parsed.result.info) = Logical(parsed.input)

\* C26: height, width and length of every detection of a returned payload
\* are at least 0.
C26Claim ==
    (Parse /\ parsed.result.status = "returned") =>
        \A i \in DOMAIN parsed.result.dets :
            \A j \in DOMAIN parsed.result.dets[i] :
                j <= 3 => parsed.result.dets[i][j] >= 0

\* A non-empty buffer of at least 7 values per row that is neither of 7, 8
\* or 15 columns nor flat with a length that is a multiple of 8.
Unmatched(input) ==
    /\ input.kind = "ndarray"
    /\ \/ /\ Len(input.shape) = 2
          /\ input.shape[1] > 0
          /\ input.shape[2] > 7
          /\ input.shape[2] \notin {8, 15}
       \/ /\ Len(input.shape) = 1
          /\ input.shape[1] > 7
          /\ input.shape[1] # 15
          /\ input.shape[1] % 8 # 0

\* C27: a buffer that matches none of the rules is normalized to one row
\* made of its first 7 values, with default info (zero 2D box, the
\* tracker's type id, score 1.0), and a warning is reported.
C27Claim ==
    (Parse /\ Unmatched(parsed.input)) =>
        LET first == Mat(1, 7, parsed.input.base) IN
        /\ parsed.result.status = "returned"
        /\ parsed.result.dets = first
        /\ parsed.result.info =
              GenerateDefaultInfo(first, GetTypeId(det_id2str, category),
                                  Ones(1))
        /\ parsed.result.warned

\* C28: the normalizer returns a payload for every input.
C28Claim == Parse => parsed.result.status = "returned"

\* An empty buffer, or a dict whose dets and info are empty sequences.
ZeroDetections(input) ==
    \/ /\ input.kind = "ndarray"
       /\ Len(input.shape) > 0
       /\ input.shape[1] = 0
    \/ /\ HasDetsAndInfo(input)
       /\ input.dets.shape = <<0>>
       /\ input.info.shape = <<0>>

\* C29: an input of zero detections is normalized to a payload of no dets
\* row and no info row.
C29Claim ==
    (Parse /\ ZeroDetections(parsed.input)) =>
        /\ parsed.result.status = "returned"
        /\ Len(parsed.result.dets) = 0
        /\ Len(parsed.result.info) = 0

\* C30: a frame skipped right after a skipped frame is skipped without the
\* open circuit being reported again.
C30Claim ==
    (Resilient /\ prev_outcome = "skipped" /\ outcome = "skipped")
        => ~reported

\* C31: after a processed frame whose tracks write and whose minimal empty
\* write both failed, no later frame of the session is processed.
C31Claim ==
    [][(/\ Resilient
        /\ phase = "running"
        /\ phase' = "running"
        /\ Processed(outcome)
        /\ sink_fault = "both"
        /\ outcome' # outcome \/ frame_count' # frame_count)
       => ~Processed(outcome')]_vars

C35Theorem ==
    [][(ResilientCall /\ outcome' \in {"dropped", "skipped"}) =>
          /\ frame_count' = frame_count
          /\ error_count' = error_count
          /\ tracker' = tracker
          /\ core' = core
          /\ elapsed' = Min(elapsed + gap', min_process_interval)
          /\ outputs' = NoWrites]_vars

\* A frame was skipped at the open circuit after frames had been processed.
C35Witness ==
    /\ Resilient
    /\ outcome = "skipped"
    /\ error_count = max_errors
    /\ frame_count > 0
    /\ tracker # 0
    /\ outputs = NoWrites

\* C36: a Core call that reaches the tracking block invokes the tracking
\* step exactly when dets and info of the parsed payload both have 7
\* columns; for any other width it produces and announces zero results,
\* reaches no handler and counts the frame.
C36Theorem ==
    [][(ResilientCall /\ payload' # NoPayload) =>
          /\ invoked' <=> (payload'.dets_w = 7 /\ payload'.info_w = 7)
          /\ ~(payload'.dets_w = 7 /\ payload'.info_w = 7) =>
                /\ produced' = 0
                /\ outputs'.num_tracks = <<0>>
                /\ outcome' = "processed"
                /\ frame_count' = frame_count + 1]_vars

\* A frame whose info has 8 columns was processed.
C36Witness ==
    /\ Resilient
    /\ outcome = "processed"
    /\ payload.dets_w = 7
    /\ payload.info_w = 8
    /\ ~invoked
    /\ frame_count > 0

\* C39: an export_result call for a hypothesis that has no writer appends
\* no row, raises nothing and leaves the dicts, the handles and the files
\* of the exporter as they were.
C39Theorem ==
    [][(deployment = "export" /\ last'.op = "export" /\ ~last'.sink_open) =>
          /\ ~last'.raised
          /\ last'.appended = 0
          /\ UNCHANGED <<num_hypo, csv_files, csv_writers, open_sinks, files,
                         seq_name, exported>>]_vars

\* A result that passes the threshold was handed to an exporter whose
\* sinks had been closed.
C39Witness ==
    /\ last.op = "export"
    /\ ~last.sink_open
    /\ last.passes
    /\ csv_writers = EmptyMap
    /\ \E f \in DOMAIN files : f.seq = seq_name

\* The rows of the results of a list that pass the threshold.
RECURSIVE PassingRows(_, _, _, _)
PassingRows(list, i, frame, threshold) ==
    IF i > Len(list) THEN <<>>
    ELSE (IF list[i].conf >= threshold
          THEN <<CsvRow(FallbackResult(frame, i - 1, list[i].type_id,
                                       list[i].conf), frame)>>
          ELSE <<>>)
         \o PassingRows(list, i + 1, frame, threshold)

\* C40: after a call of export_tracking_results_csv that could open its
\* files no sink is open and each file of the sequence holds the header and
\* the rows of the call's results that passed the threshold, and nothing
\* of an earlier call.
C40Claim ==
    (last.op = "standalone" /\ ~last.open_failed) =>
        /\ open_sinks = {}
        /\ \A h \in 0..(last.nh - 1) :
              LET f == [seq |-> last.seq, hypo |-> h] IN
              /\ f \in DOMAIN files
              /\ files[f] = <<CsvHeader>>
                    \o PassingRows(last.results_data[h], 1, last.frame,
                                   last.threshold)

\* C32: after main() has run with a numeric threshold argument, and no step
\* of restore_threshold failed, utils.py has the content it had before
\* the run and no backup file remains, whatever the outcome of the
\* tracking run and whichever step of modify_threshold failed.
C32Claim ==
    (deployment = "threshold" /\ ran.numeric
     /\ ran.fault \notin {"restore", "remove"}) =>
        utils_file = ran.before /\ backup_file = NoFile

\* C33: after normalize_csv_file has been applied to a tracking-result file
\* in place one or more times, confidence_score_raw holds the original
\* detector scores and confidence_score their sigmoid, applied once.
C33Claim ==
    (deployment = "csvnorm" /\ norm_calls >= 1) =>
        /\ csv_table.raw = original_scores
        /\ csv_table.conf = [i \in 1..Len(original_scores) |->
                                SigmoidNormalize(original_scores[i])]

\* C37: for the rows of a 15-column detector file the normalizer takes the
\* score and the x, y, z position from the columns the detector-file
\* readers use for the confidence and for x, y, z.
C37Claim ==
    (Parse /\ parsed.component = "resilient"
     /\ parsed.input.kind = "ndarray" /\ Len(parsed.input.shape) = 2
     /\ parsed.input.shape[2] = 15 /\ parsed.input.shape[1] > 0) =>
        LET rows == Mat(parsed.input.shape[1], 15, parsed.input.base)
            r == parsed.result
        IN  /\ r.status = "returned"
            /\ \A read \in {LoadPointrcnnDetections(rows),
                             LoadDetectionFile(rows)} :
                 \A i \in 1..Len(rows) :
                    /\ r.info[i][7] = read[i].confidence
                    /\ r.dets[i][4] = read[i].x_3d
                    /\ r.dets[i][5] = read[i].y_3d
                    /\ r.dets[i][6] = read[i].z_3d

\* C38: for every 15-field result the logger receives from the tracker
\* component, the TrackID, X, Y, Z and Confidence it logs are the result's
\* track id (field 7), x, y, z (fields 3, 4, 5) and confidence (field 14).
C38Claim ==
    (deployment = "logger" /\ logged.op = "core") =>
        \A k \in 1..Len(logged.lines) :
            LET track == logged.tracks[k]
                line == logged.lines[k]
            IN  Len(track) = 15 =>
                    /\ line.TrackID = IntOf(track[8])
                    /\ line.X = Fmt3(track[4])
                    /\ line.Y = Fmt3(track[5])
                    /\ line.Z = Fmt3(track[6])
                    /\ line.Confidence = Fmt3(track[15])

TypeOK ==
    /\ frame_count \in 0..frame_cap
    /\ error_count \in 0..1
    /\ elapsed \in 0..MaxInterval
====
